---- MODULE Spec2Model ----
(***************************************************************************)
(* A model of support/cutarelease.py: the version model (parse, format,    *)
(* next), the changelog and version-file text rewriting, and the release   *)
(* orchestration of cutarelease() under the mainline's exit handling.      *)
(*                                                                         *)
(* Text is a sequence of atoms.  An atom is one character where single     *)
(* characters matter to the code ("#", " ", "\n", the version characters   *)
(* 0-9 . a b c, quotes and brackets) and one indivisible word elsewhere    *)
(* ("proj", "(not yet released)", "(nothing yet)", "fix", the fixed heads  *)
(* of the version markers).  Python's substring search, str.replace,       *)
(* str.split, str.strip and the regular expressions are computed on these  *)
(* sequences the way the interpreter computes them on characters.          *)
(***************************************************************************)
EXTENDS Integers, Sequences, FiniteSets, TLC

VARIABLES
    \* ---- the working tree and the repository (the world outside the run)
    fs,                   \* path -> [exists, text]: files of the working tree
    git_tags,             \* sequence of tag names `git tag -l` prints
    effects,              \* log of side effects issued so far, oldest first
    \* ---- the invocation
    dry_run,              \* opts.dry_run
    version_files,        \* opts.version_files, then the resolved list
    \* ---- locals of cutarelease()
    pc,                   \* position in cutarelease() / the mainline
    parsed_version_files, \* [_parse_version_file(f) for f in version_files]
    version_file_type,
    version_info,
    version,
    changes_txt,
    changes_txt_before,
    changes_sections,     \* changes_parser.findall(changes_txt)
    curr_tags,
    next_version_info,
    next_version,
    i,                    \* index of the version-file loop (0-based, as enumerate)
    raised,               \* the exception that ended the run (exc = "" when none)
    stopped_at,           \* where the run returned or raised ("" while it runs)
    exit_status,          \* the process exit status (-1 while running)
    \* ---- the operator and the session around the runs
    script,               \* the answer given to each question ("" = not asked)
    run_no,               \* 1 for the first run of the session, 2 for a second one
    fixture,              \* the working tree and tags the session started from
    prev,                 \* how the session's first run ended
    reliable,             \* the terminal and the external commands never fail
    \* ---- the version functions taken alone
    v_str                 \* the version string handed to _version_info_from_version

vars == <<fs, git_tags, effects, dry_run, version_files, pc, parsed_version_files,
          version_file_type, version_info, version, changes_txt, changes_txt_before,
          changes_sections, curr_tags, next_version_info, next_version, i, raised,
          stopped_at, exit_status, script, run_no, fixture, prev, reliable, v_str>>

\* groups of variables, for the UNCHANGED clauses
world      == <<fs, git_tags, effects>>
invocation == <<dry_run, run_no, fixture, prev, reliable, v_str>>
resolved   == <<version_files, parsed_version_files, version_file_type, version_info,
                version>>
changes    == <<changes_txt, changes_txt_before, changes_sections>>
upcoming   == <<next_version_info, next_version>>

(***************************************************************************)
(* Bounds of the model.                                                    *)
(***************************************************************************)
\* Largest number written as a component of the version strings enumerated
\* for the version functions taken alone.
MaxNum == 2
\* Largest number of -f/--version-file options of one invocation.
MaxFiles == 2

(***************************************************************************)
(* Python string primitives on atom sequences.                             *)
(***************************************************************************)
DigitChars == <<"0", "1", "2", "3", "4", "5", "6", "7", "8", "9">>

IsDigit(c) == \E d \in 1..10 : DigitChars[d] = c

\* \s of the regular expressions, and the characters str.strip() removes
IsSpace(c) == c \in {" ", "\n"}

\* [\d\.abc] of changes_parser
IsVerChar(c) == IsDigit(c) \/ c \in {".", "a", "b", "c"}

DigitValue(c) == (CHOOSE d \in 1..10 : DigitChars[d] = c) - 1

\* text[a..b] (1-based, inclusive; empty when b < a)
Slice(text, a, b) == IF b < a THEN <<>> ELSE SubSeq(text, a, b)

\* text.startswith(pat, at-1)
MatchesAt(text, pat, at) ==
    /\ at >= 1
    /\ at + Len(pat) - 1 <= Len(text)
    /\ \A k \in 1..Len(pat) : text[at + k - 1] = pat[k]

\* text.find(pat, from-1) + 1: the first position >= from where pat occurs, 0 if none
RECURSIVE Find(_, _, _)
Find(text, pat, from) ==
    IF from > Len(text) - Len(pat) + 1 THEN 0
    ELSE IF MatchesAt(text, pat, from) THEN from
    ELSE Find(text, pat, from + 1)

\* pat in text
Contains(text, pat) == Find(text, pat, 1) # 0

\* text.count(pat): non-overlapping occurrences, scanned left to right
RECURSIVE CountFrom(_, _, _)
CountFrom(text, pat, from) ==
    LET p == Find(text, pat, from)
    IN  IF p = 0 THEN 0 ELSE 1 + CountFrom(text, pat, p + Len(pat))

Count(text, pat) == CountFrom(text, pat, 1)

\* text.replace(old, new, count): the first count occurrences, left to right,
\* non-overlapping; count = -1 (the argument left out) replaces every occurrence.
\* old is never empty here.
RECURSIVE Replace(_, _, _, _)
Replace(text, old, new, count) ==
    LET p == Find(text, old, 1)
    IN  IF count = 0 \/ p = 0
        THEN text
        ELSE Slice(text, 1, p - 1) \o new
             \o Replace(Slice(text, p + Len(old), Len(text)), old, new,
                        IF count < 0 THEN count ELSE count - 1)

\* text.strip()
RECURSIVE LStrip(_)
LStrip(text) ==
    IF text # <<>> /\ IsSpace(Head(text)) THEN LStrip(Tail(text)) ELSE text

RECURSIVE RStrip(_)
RStrip(text) ==
    IF text # <<>> /\ IsSpace(text[Len(text)])
    THEN RStrip(Slice(text, 1, Len(text) - 1))
    ELSE text

Strip(text) == RStrip(LStrip(text))

\* text.split(sep) for a one-character sep: always at least one piece
RECURSIVE Split(_, _)
Split(text, sep) ==
    LET p == Find(text, <<sep>>, 1)
    IN  IF p = 0
        THEN <<text>>
        ELSE <<Slice(text, 1, p - 1)>> \o Split(Slice(text, p + 1, Len(text)), sep)

\* sep.join(pieces)
RECURSIVE Join(_, _)
Join(pieces, sep) ==
    IF pieces = <<>> THEN <<>>
    ELSE IF Len(pieces) = 1 THEN pieces[1]
    ELSE pieces[1] \o sep \o Join(Tail(pieces), sep)

\* the length of the longest run of digits (\d+) that starts at `at`
RECURSIVE DigitRun(_, _)
DigitRun(text, at) ==
    IF at <= Len(text) /\ IsDigit(text[at]) THEN 1 + DigitRun(text, at + 1) ELSE 0

\* the length of the longest run of [\d\.abc] that starts at `at`
RECURSIVE VerRun(_, _)
VerRun(text, at) ==
    IF at <= Len(text) /\ IsVerChar(text[at]) THEN 1 + VerRun(text, at + 1) ELSE 0

\* the length of the longest run of white space (\s+) that starts at `at`
RECURSIVE SpaceRun(_, _)
SpaceRun(text, at) ==
    IF at <= Len(text) /\ IsSpace(text[at]) THEN 1 + SpaceRun(text, at + 1) ELSE 0

AllDigits(s) == s # <<>> /\ \A k \in 1..Len(s) : IsDigit(s[k])

\* int(s) of a string of digits
RECURSIVE IntOfDigits(_)
IntOfDigits(s) ==
    IF s = <<>> THEN 0
    ELSE 10 * IntOfDigits(Slice(s, 1, Len(s) - 1)) + DigitValue(s[Len(s)])

\* str(n) of a non-negative integer
RECURSIVE StrOfInt(_)
StrOfInt(n) ==
    IF n < 10 THEN <<DigitChars[n + 1]>>
    ELSE StrOfInt(n \div 10) \o <<DigitChars[(n % 10) + 1]>>

(***************************************************************************)
(* A component of a version tuple is a Python int or a Python string.      *)
(***************************************************************************)
\* t is "int", "str" (a byte string: a literal evaluated from a .py file, a piece
\* of the str that _version_from_version_info builds) or "unicode" (a piece of
\* text read through codecs.open or json.loads).
IntC(n) == [t |-> "int", n |-> n, s |-> <<>>]
StrC(s) == [t |-> "str", n |-> 0, s |-> s]
UniC(s) == [t |-> "unicode", n |-> 0, s |-> s]

\* int(g) if it succeeds, else g: what the try/except of
\* _version_info_from_version and of _intify keep of a piece of text
Intify(s, kind) ==
    IF AllDigits(s) THEN IntC(IntOfDigits(s)) ELSE [t |-> kind, n |-> 0, s |-> s]

\* whether int(c) succeeds for a component of a version tuple
IntSucceeds(c) == c.t = "int" \/ AllDigits(c.s)

\* str(c)
StrOf(c) == IF c.t = "int" THEN StrOfInt(c.n) ELSE c.s

(***************************************************************************)
(* The version model: _version_re, _version_info_from_version,             *)
(* _version_from_version_info, _get_next_version_info, _tuple_from_version.*)
(***************************************************************************)
NoGroup == [none |-> TRUE, s |-> <<>>]
Group(s) == [none |-> FALSE, s |-> s]

\* `$` of a pattern without re.M: the end of the text, or just before a final "\n"
AtDollar(text, at) ==
    at = Len(text) + 1 \/ (at = Len(text) /\ text[at] = "\n")

\* the lengths of the k runs of digits (\d+) of which the first starts at `at` and
\* each next one starts one character after the end of the run before it
RECURSIVE DigitRuns(_, _, _)
DigitRuns(text, at, k) ==
    IF k = 0 THEN <<>>
    ELSE <<DigitRun(text, at)>> \o DigitRuns(text, at + DigitRun(text, at) + 1, k - 1)

\* The five groups of the match, or no match, n being the lengths of the runs of
\* digits that groups 1, 2, 3 and 5 can take.  Every repetition is greedy and is
\* followed by a character outside its class, so the longest run is the only
\* candidate at each place.
VersionGroups(text, n) ==
    LET p == n[1] + n[2] + 2
        q == p + 1 + n[3]
        r == q + 1 + n[4]
        head == <<Group(Slice(text, 1, n[1])), Group(Slice(text, n[1] + 2, p - 1))>>
        nomatch == [matched |-> FALSE, groups |-> <<>>]
    IN  IF ~(n[1] >= 1 /\ n[1] + 1 <= Len(text) /\ text[n[1] + 1] = "." /\ n[2] >= 1)
        THEN nomatch
        ELSE IF p <= Len(text) /\ text[p] = "." /\ n[3] >= 1
        THEN IF q <= Len(text) /\ text[q] \in {"a", "b", "c"} /\ AtDollar(text, r)
             THEN [matched |-> TRUE,
                   groups |-> head \o <<Group(Slice(text, p + 1, q - 1)),
                                        Group(Slice(text, q, r - 1)),
                                        IF n[4] >= 1 THEN Group(Slice(text, q + 1, r - 1))
                                                     ELSE NoGroup>>]
             ELSE IF AtDollar(text, q)
             THEN [matched |-> TRUE,
                   groups |-> head \o <<Group(Slice(text, p + 1, q - 1)), NoGroup, NoGroup>>]
             ELSE nomatch
        ELSE IF AtDollar(text, p)
        THEN [matched |-> TRUE, groups |-> head \o <<NoGroup, NoGroup, NoGroup>>]
        ELSE nomatch

\* _version_re.match(version): ^(\d+)\.(\d+)(?:\.(\d+)([abc](\d+)?)?)?$
_version_re(text) == VersionGroups(text, DigitRuns(text, 1, 4))

\* the loop of _version_info_from_version: stop at the first group that is None,
\* keep int(g), or g itself when int(g) raises ValueError
RECURSIVE GroupsToInfo(_)
GroupsToInfo(groups) ==
    IF groups = <<>> \/ Head(groups).none
    THEN <<>>
    ELSE <<Intify(Head(groups).s, "unicode")>> \o GroupsToInfo(Tail(groups))

\* what _version_info_from_version makes of the match m: Error when nothing matched
InfoOfMatch(m) ==
    IF ~m.matched
    THEN [ok |-> FALSE, info |-> <<>>]
    ELSE [ok |-> TRUE, info |-> GroupsToInfo(m.groups)]

\* _version_info_from_version(version)
_version_info_from_version(text) == InfoOfMatch(_version_re(text))

\* the loop of _version_from_version_info over version_info[1:]
RECURSIVE FormatRest(_, _)
FormatRest(rest, state_dot_join) ==
    IF rest = <<>>
    THEN <<>>
    ELSE LET c == Head(rest)
             join == state_dot_join /\ IntSucceeds(c)
         IN  (IF join THEN <<".">> \o StrOf(c) ELSE StrOf(c))
             \o FormatRest(Tail(rest), join)

\* _version_from_version_info(version_info)
_version_from_version_info(info) ==
    StrOf(info[1]) \o FormatRest(Tail(info), TRUE)

\* _get_next_version_info(version_info): next[-1] += 1 raises TypeError on a string
_get_next_version_info(info) ==
    LET last == info[Len(info)]
    IN  IF last.t = "int"
        THEN [ok |-> TRUE, info |-> [info EXCEPT ![Len(info)] = IntC(last.n + 1)]]
        ELSE [ok |-> FALSE, info |-> info]

\* tuple(_intify(s) for s in pieces)
IntifyAll(pieces, kind) == [k \in 1..Len(pieces) |-> Intify(pieces[k], kind)]

\* _tuple_from_version(version)
_tuple_from_version(text) == IntifyAll(Split(text, "."), "str")

(***************************************************************************)
(* The atoms of the version files and of the changelog.                    *)
(***************************************************************************)
NYR      == "(not yet released)"
NOTHING  == "(nothing yet)"
JSON_KEY == "\"version\": \""        \* the head of the package.json marker
JSON_KEY_TIGHT == "\"version\":\""   \* the same key written without the space
QUOTE    == "\""
JSON_DEP == "\"dep\": "              \* a key that holds a nested object
JS_HEAD  == "var VERSION = \""       \* the head of the .js marker
JS_TAIL  == "\";"
PY_HEAD  == "__version_info__ = "    \* the head of the .py marker

project_name == "proj"
changes_path == "CHANGES.md"

\* the candidates of the version-file guess, in the order the code probes them
candidates ==
    <<"package.json", "VERSION.txt", "VERSION", "proj.py", "lib/proj.py",
      "proj.js", "lib/proj.js">>

Paths == {candidates[k] : k \in 1..Len(candidates)} \cup {changes_path, "setup.py"}

\* basename(f) == "package.json", splitext(f)[1] == ".py", == ".js", else plain text
FileTypeOf(path) ==
    IF path = "package.json" THEN "package.json"
    ELSE IF path \in {"proj.py", "lib/proj.py", "setup.py"} THEN "python"
    ELSE IF path \in {"proj.js", "lib/proj.js"} THEN "javascript"
    ELSE "version"

\* ^ under re.M: the start of the text or just after a "\n"
LineStart(text, at) == at = 1 \/ (at >= 2 /\ at <= Len(text) + 1 /\ text[at - 1] = "\n")

\* $ under re.M: the end of the text or just before a "\n"
LineEnd(text, at) == at = Len(text) + 1 \/ (at <= Len(text) /\ text[at] = "\n")

\* the first position >= from of the end of the line (of a "\n", or Len + 1)
EndOfLine(text, from) ==
    LET p == Find(text, <<"\n">>, from) IN IF p = 0 THEN Len(text) + 1 ELSE p

\* repr(c) of a component of a tuple
ReprOf(c) ==
    IF c.t = "int" THEN StrOfInt(c.n)
    ELSE IF c.t = "unicode" THEN <<"u", "'">> \o c.s \o <<"'">>
    ELSE <<"'">> \o c.s \o <<"'">>

\* "%r" % (version_info,): "(" + ", ".join(repr(c)) + ")", "(c,)" for one component
Repr(info) ==
    IF Len(info) = 1
    THEN <<"(">> \o ReprOf(info[1]) \o <<",", ")">>
    ELSE <<"(">> \o Join([k \in 1..Len(info) |-> ReprOf(info[k])], <<",", " ">>)
         \o <<")">>

\* eval() of one element of a tuple display: digits, 'text' or u'text'
EvalElement(text) ==
    IF AllDigits(text)
    THEN [ok |-> TRUE, c |-> IntC(IntOfDigits(text))]
    ELSE IF Len(text) >= 2 /\ text[1] = "'" /\ text[Len(text)] = "'"
    THEN [ok |-> TRUE, c |-> StrC(Slice(text, 2, Len(text) - 1))]
    ELSE IF Len(text) >= 3 /\ text[1] = "u" /\ text[2] = "'" /\ text[Len(text)] = "'"
    THEN [ok |-> TRUE, c |-> UniC(Slice(text, 3, Len(text) - 1))]
    ELSE [ok |-> FALSE, c |-> IntC(0)]

\* the display without its parentheses, if it has them
Unparenthesised(t) ==
    IF Len(t) >= 2 /\ t[1] = "(" /\ t[Len(t)] = ")" THEN Slice(t, 2, Len(t) - 1) ELSE t

\* the elements of a display cut at its commas: a trailing comma ends the last one
Elements(raw) ==
    IF raw[Len(raw)] = <<>> THEN Slice(raw, 1, Len(raw) - 1) ELSE raw

\* the tuple of the evaluated elements, commas being the number of commas seen
TupleOf(commas, elems) ==
    IF commas >= 1 /\ Len(elems) >= 1 /\ \A k \in 1..Len(elems) : elems[k].ok
    THEN [ok |-> TRUE, info |-> [k \in 1..Len(elems) |-> elems[k].c]]
    ELSE [ok |-> FALSE, info |-> <<>>]

EvalPieces(raw) ==
    TupleOf(Len(raw) - 1, [k \in 1..Len(Elements(raw)) |-> EvalElement(Elements(raw)[k])])

\* eval(text) of a tuple display "(e, e, ...)" or "e, e, ...": white space between
\* the elements is insignificant, a trailing comma is allowed, and it is the comma
\* that makes the tuple.  ok is whether the text evaluates to a tuple: nothing else
\* the files of this model hold after the marker head does.
EvalTuple(text) ==
    EvalPieces(Split(Replace(Unparenthesised(Strip(text)), <<" ">>, <<>>, -1), ","))

\* the nesting depth of position `at` of a JSON text
RECURSIVE JsonDepth(_, _)
JsonDepth(text, at) ==
    IF at <= 1 THEN 0
    ELSE JsonDepth(text, at - 1)
         + (IF text[at - 1] = "{" THEN 1 ELSE IF text[at - 1] = "}" THEN -1 ELSE 0)

\* the least and the greatest of a non-empty set of positions
Least(S)    == CHOOSE p \in S : \A q \in S : p <= q
Greatest(S) == CHOOSE p \in S : \A q \in S : q <= p

\* the text from position `from` up to the character before position `to`, found
\* when the text has the place
Found(text, from, to) == [ok |-> TRUE, s |-> Slice(text, from, to - 1)]
NotFound == [ok |-> FALSE, s |-> <<>>]

\* the value of the key at position p: up to the closing quote
JsonValue(text, keys) ==
    IF keys = {} THEN NotFound
    ELSE Found(text, Greatest(keys) + 1, Find(text, <<QUOTE>>, Greatest(keys) + 1))

\* json.loads(content)["version"]: the value of the "version" key of the outermost
\* object, the last one if the key is repeated; KeyError without one
JsonVersion(text) ==
    JsonValue(text, {p \in 1..Len(text) :
                        text[p] \in {JSON_KEY, JSON_KEY_TIGHT} /\ JsonDepth(text, p) = 1})

\* group(1) of the first of the lines that start with the marker head
RestOfLine(text, hits) ==
    IF hits = {} THEN NotFound
    ELSE Found(text, Least(hits) + 1, EndOfLine(text, Least(hits) + 1))

\* re.search(r'^__version_info__ = (.*?)$', content, re.M).group(1): the rest of
\* the first line that starts with the marker head
PySearch(text) ==
    RestOfLine(text, {p \in 1..Len(text) : text[p] = PY_HEAD /\ LineStart(text, p)})

\* the places after position p where the marker tail ends the line of p
TailEnds(text, p) ==
    {q \in (p + 1)..(EndOfLine(text, p + 1) - 1) :
        text[q] = JS_TAIL /\ LineEnd(text, q + 1)}

\* group(1) of the first of the lines that start with the marker head and end with
\* the marker tail: what lies between the head and the first tail that ends the line
UpToTail(text, hits) ==
    IF hits = {} THEN NotFound
    ELSE Found(text, Least(hits) + 1, Least(TailEnds(text, Least(hits))))

\* re.search(r'^var VERSION = "(.*?)";$', content, re.M).group(1)
JsSearch(text) ==
    UpToTail(text, {p \in 1..Len(text) :
                       text[p] = JS_HEAD /\ LineStart(text, p) /\ TailEnds(text, p) # {}})

\* the exception of _parse_version_file when the file does not declare a version,
\* and when what it declares cannot be converted
MissingExc(type) == IF type = "package.json" THEN "KeyError" ELSE "AttributeError"
ConvertExc(type) == IF type = "python" THEN "SyntaxError" ELSE "Error"

\* what _parse_version_file returns or raises
Parsed(type, r) ==
    [ok |-> r.ok, exc |-> IF r.ok THEN "" ELSE ConvertExc(type), type |-> type,
     info |-> r.info]
Raises(type, exc) == [ok |-> FALSE, exc |-> exc, type |-> type, info |-> <<>>]

\* the text of the version a file of the type declares: json.loads(...)["version"],
\* group(1) of the re.search, or content.strip()
DeclaredVersion(type, content) ==
    IF type = "package.json" THEN JsonVersion(content)
    ELSE IF type = "python" THEN PySearch(content)
    ELSE IF type = "javascript" THEN JsSearch(content)
    ELSE Found(Strip(content), 1, Len(Strip(content)) + 1)

\* the tuple of the declared text: eval() for a .py file,
\* _version_info_from_version for the others
ConvertVersion(type, m) ==
    IF ~m.ok THEN Raises(type, MissingExc(type))
    ELSE IF type = "python" THEN Parsed(type, EvalTuple(m.s))
    ELSE Parsed(type, _version_info_from_version(m.s))

\* _parse_version_file(version_file) on the working tree `files`
_parse_version_file(files, path) ==
    IF ~files[path].exists THEN Raises(FileTypeOf(path), "IOError")
    ELSE ConvertVersion(FileTypeOf(path),
                        DeclaredVersion(FileTypeOf(path), files[path].text))

(***************************************************************************)
(* The changelog: changes_parser and the two rewrites.                     *)
(***************************************************************************)
NoSection == [ok |-> FALSE, ver |-> <<>>, nyr |-> <<>>, body |-> <<>>, end |-> 0]

\* where the version starts after "## " at j - 3: the project name is tried first
\* and given up when no version follows it
VersionStart(text, j) ==
    IF MatchesAt(text, <<project_name, " ">>, j) /\ VerRun(text, j + 2) >= 1
    THEN j + 2 ELSE j

\* where the body starts after the version that ends before k: after the white
\* space and the mark if they are there
BodyStart(text, k, w) ==
    IF w >= 1 /\ k + w <= Len(text) /\ text[k + w] = NYR THEN k + w + 1 ELSE k

\* where the body that starts at b ends: the body is the shortest text after which
\* a line starts with "##" or the text ends
BodyEnd(text, b, stops) == IF stops = {} THEN Len(text) + 1 ELSE Least(stops)

Section(text, vstart, k, b, end) ==
    [ok |-> TRUE, ver |-> Slice(text, vstart, k - 1), nyr |-> Slice(text, k, b - 1),
     body |-> Slice(text, b, end - 1), end |-> end]

AfterMark(text, vstart, k, b) ==
    Section(text, vstart, k, b,
            BodyEnd(text, b, {e \in b..Len(text) :
                                 LineStart(text, e) /\ MatchesAt(text, <<"#", "#">>, e)}))

AfterVersion(text, vstart, k) ==
    AfterMark(text, vstart, k, BodyStart(text, k, SpaceRun(text, k)))

\* the version is the longest run of [\d\.abc], at least one character
AfterHeading(text, vstart) ==
    IF VerRun(text, vstart) = 0 THEN NoSection
    ELSE AfterVersion(text, vstart, vstart + VerRun(text, vstart))

\* changes_parser matched at position `at`:
\*   ^## (?:proj )?(?P<ver>[\d\.abc]+)(?P<nyr>\s+\(not yet released\))?
\*   (?P<body>.*?)(?=^##|\Z)      under re.M | re.S
SectionAt(text, at) ==
    IF LineStart(text, at) /\ MatchesAt(text, <<"#", "#", " ">>, at)
    THEN AfterHeading(text, VersionStart(text, at + 3))
    ELSE NoSection

\* changes_parser.findall(text) from position `from` on: the matches left to right,
\* each search resuming where the match before it ended
RECURSIVE FindAllFrom(_, _)
FindAllAfter(text, from, m) ==
    IF m.ok
    THEN <<[ver |-> m.ver, nyr |-> m.nyr, body |-> m.body]>> \o FindAllFrom(text, m.end)
    ELSE FindAllFrom(text, from + 1)

FindAllFrom(text, from) ==
    IF from > Len(text) THEN <<>>
    ELSE FindAllAfter(text, from, SectionAt(text, from))

changes_parser_findall(text) == FindAllFrom(text, 1)

\* changes_txt.replace(" (not yet released)", "", 1)
mark_released(text) == Replace(text, <<" ", NYR>>, <<>>, 1)

\* "## %s %s\n" % (project_name, version)
SectionMarker(ver) == <<"#", "#", " ", project_name, " ">> \o ver \o <<"\n">>

\* "## %s %s (not yet released)\n\n(nothing yet)\n\n## %s %s\n"
NextSectionText(next, ver) ==
    <<"#", "#", " ", project_name, " ">> \o next
    \o <<" ", NYR, "\n", "\n", NOTHING, "\n", "\n">> \o SectionMarker(ver)

\* changes_txt.replace(marker, ...) of lines 190-192: no count, every occurrence
open_next_section(text, ver, next) ==
    Replace(text, SectionMarker(ver), NextSectionText(next, ver), -1)

\* the comparison gone wrong: the body is compared as it was matched, blank
\* lines included
IsEmptyReleaseUnstripped(body) == body = <<NOTHING>>

\* top_body.strip() == "(nothing yet)"
IsEmptyRelease(top_body) == Strip(top_body) = <<NOTHING>>

(***************************************************************************)
(* The rewrite of one version file (lines 201-227).                        *)
(***************************************************************************)
\* the marker the file must hold, for the three formats that have one
VersionMarker(type, ver, info) ==
    IF type = "package.json" THEN <<JSON_KEY>> \o ver \o <<QUOTE>>
    ELSE IF type = "javascript" THEN <<JS_HEAD>> \o ver \o <<JS_TAIL>>
    ELSE <<PY_HEAD>> \o Repr(info)

\* ver_content.replace(marker, new): no count, every occurrence
ReplaceMarker(content, marker, new) == Replace(content, marker, new, -1)

\* the new content of a version file, or Error when its marker is missing
RewriteVersionFile(type, content, ver, info, next, next_tuple) ==
    IF type \in {"package.json", "javascript", "python"}
    THEN IF ~Contains(content, VersionMarker(type, ver, info))
         THEN [ok |-> FALSE, text |-> content]
         ELSE [ok |-> TRUE,
               text |-> ReplaceMarker(content, VersionMarker(type, ver, info),
                                      VersionMarker(type, next, next_tuple))]
    ELSE IF type = "version"
    THEN [ok |-> TRUE, text |-> next]
    ELSE [ok |-> FALSE, text |-> content]

(***************************************************************************)
(* The version functions taken alone: a version string is parsed, the      *)
(* tuple is formatted back, and the next tuple is computed.                *)
(***************************************************************************)
\* how a number is written: plainly, and once with a leading zero (\d+ takes both)
Numerals == {StrOfInt(n) : n \in 0..MaxNum}

Suffixes == {<<l>> : l \in {"a", "b", "c"}}
             \cup {<<l>> \o n : l \in {"a", "b", "c"}, n \in Numerals}

\* the grammar major.minor[.patch[(a|b|c)[N]]]
GrammarVersions ==
    LET two   == {a \o <<".">> \o b : a \in Numerals, b \in Numerals}
        three == {ab \o <<".">> \o c : ab \in two, c \in Numerals}
    IN  two \cup three \cup {abc \o x : abc \in three, x \in Suffixes}

\* versions written with a leading zero
PaddedVersions ==
    { <<"1", ".", "0", "1">>, <<"0", "1", ".", "0", ".", "0">>,
      <<"1", ".", "0", ".", "0", "1", "a", "0", "1">> }

\* strings outside the grammar
NonVersions ==
    { <<>>, <<"1">>, <<"1", ".">>, <<"1", ".", "0", ".">>, <<"1", ".", "0", "a">>,
      <<"1", ".", "0", ".", "1", ".", "2">>, <<"1", ".", "0", ".", "1", "a", "b">>,
      <<"a", ".", "0">> }

\* an exception: its class, exc.args[0] when that is a number (the errno of an
\* IOError, the exit status of a failed command) and what the message is about
Exc(exc, errno, msg) == [exc |-> exc, errno |-> errno, msg |-> msg]
NoExc == Exc("", 0, "")

\* the state of a run before cutarelease() has assigned anything
LocalsInit ==
    /\ parsed_version_files = <<>>
    /\ version_file_type = ""
    /\ version_info = <<>>
    /\ version = <<>>
    /\ changes_txt = <<>>
    /\ changes_txt_before = <<>>
    /\ changes_sections = <<>>
    /\ curr_tags = {}
    /\ next_version_info = <<>>
    /\ next_version = <<>>
    /\ i = 0
    /\ raised = NoExc
    /\ stopped_at = ""
    /\ exit_status = -1

InitVersion ==
    /\ v_str \in GrammarVersions \cup PaddedVersions \cup NonVersions
    /\ pc = "v_parse"
    /\ LocalsInit
    /\ fs = <<>> /\ git_tags = <<>> /\ effects = <<>>
    /\ dry_run = TRUE /\ version_files = <<>>
    /\ script = <<>> /\ run_no = 0 /\ fixture = <<>> /\ prev = <<>>
    /\ reliable = TRUE

\* version_info = _version_info_from_version(v_str)
VParse ==
    /\ pc = "v_parse"
    /\ LET r == _version_info_from_version(v_str)
       IN  IF r.ok
           THEN version_info' = r.info /\ pc' = "v_format" /\ raised' = raised
           ELSE version_info' = version_info /\ pc' = "v_done"
                /\ raised' = Exc("Error", 0, "could not convert version")
    /\ UNCHANGED <<world, invocation, changes, upcoming, version_files,
                   parsed_version_files, version_file_type, version, curr_tags, i,
                   stopped_at, exit_status, script>>

\* version = _version_from_version_info(version_info)
VFormat ==
    /\ pc = "v_format"
    /\ version' = _version_from_version_info(version_info)
    /\ pc' = "v_next"
    /\ UNCHANGED <<world, invocation, changes, upcoming, version_files,
                   parsed_version_files, version_file_type, version_info, curr_tags, i,
                   raised, stopped_at, exit_status, script>>

\* next_version_info = _get_next_version_info(version_info)
VNext ==
    /\ pc = "v_next"
    /\ LET r == _get_next_version_info(version_info)
       IN  IF r.ok
           THEN next_version_info' = r.info /\ raised' = raised
           ELSE next_version_info' = next_version_info
                /\ raised' = Exc("TypeError", 0, "")
    /\ pc' = "v_done"
    /\ UNCHANGED <<world, invocation, changes, resolved, next_version, curr_tags, i,
                   stopped_at, exit_status, script>>

NextVersion == VParse \/ VFormat \/ VNext

SpecVersion == InitVersion /\ [][NextVersion]_vars

(***************************************************************************)
(* The working trees the runs start from.                                  *)
(***************************************************************************)
V101    == <<"1", ".", "0", ".", "1">>              \* the usual case
V19     == <<"1", ".", "9">>                        \* the next one has more digits
V101a   == <<"1", ".", "0", ".", "1", "a">>         \* a pre-release without digits
V101a1  == <<"1", ".", "0", ".", "1", "a", "1">>    \* a pre-release with digits
V100    == <<"1", ".", "0", "0">>                   \* a leading zero
V1      == <<"1">>                                  \* not a version
V200    == <<"2", ".", "0", ".", "0">>              \* another version
VOLD    == <<"1", ".", "0", ".", "0">>              \* the release before

RawVersions == {V101, V19, V101a, V101a1, V100, V1}

\* the paths given with -f in the fixtures, one of each format
GivenPaths == {"package.json", "proj.py", "proj.js", "VERSION"}

\* how a version is written in a file of the type: a tuple display in a .py file
Literal(type, ver) == IF type = "python" THEN Repr(_tuple_from_version(ver)) ELSE ver

\* a version file that declares `decl` and, when `mention` is not empty, holds the
\* marker text of `mention` a second time where the parser does not look: in a
\* nested object of package.json, in a comment of a .js or .py file
Doc(type, decl, mention) ==
    IF type = "package.json"
    THEN <<"{", JSON_KEY>> \o decl \o <<QUOTE>>
         \o (IF mention = <<>> THEN <<>>
             ELSE <<",", JSON_DEP, "{", JSON_KEY>> \o mention \o <<QUOTE, "}">>)
         \o <<"}", "\n">>
    ELSE IF type = "javascript"
    THEN <<JS_HEAD>> \o decl \o <<JS_TAIL, "\n">>
         \o (IF mention = <<>> THEN <<>>
             ELSE <<"/", "/", " ", JS_HEAD>> \o mention \o <<JS_TAIL, "\n">>)
    ELSE IF type = "python"
    THEN <<PY_HEAD>> \o decl \o <<"\n">>
         \o (IF mention = <<>> THEN <<>>
             ELSE <<"#", " ", PY_HEAD>> \o mention \o <<"\n">>)
    ELSE decl \o <<"\n">>

\* a version file edited by hand so that it still parses (where the format allows
\* it) but no longer holds the marker text: the key or the tuple written without
\* spaces, the .js statement without its semicolon, a blank before the version
EditedDoc(type, ver) ==
    IF type = "package.json"
    THEN <<"{", JSON_KEY_TIGHT>> \o ver \o <<QUOTE, "}", "\n">>
    ELSE IF type = "python"
    THEN <<PY_HEAD>> \o Replace(Literal(type, ver), <<" ">>, <<>>, -1) \o <<"\n">>
    ELSE IF type = "javascript"
    THEN <<JS_HEAD>> \o ver \o <<QUOTE, "\n">>
    ELSE <<" ">> \o ver \o <<"\n">>

File(text) == [exists |-> TRUE, text |-> text]
NoFile     == [exists |-> FALSE, text |-> <<>>]
EmptyTree  == [p \in Paths |-> NoFile]

\* what the first version file may hold
FirstContents(path) ==
    LET type == FileTypeOf(path)
    IN  {File(Doc(type, Literal(type, v), <<>>)) : v \in RawVersions}
        \cup {File(Doc(type, Literal(type, V101), Literal(type, V101))),
              File(EditedDoc(type, V101)),
              File(<<"{", "}", "\n">>),
              NoFile}

\* what a further version file may hold, `ver` being the version of the first:
\* the same version, another one, another one with the marker of `ver` in a
\* comment, the same one edited by hand
MoreContents(path, ver) ==
    LET type == FileTypeOf(path)
    IN  {File(Doc(type, Literal(type, ver), <<>>)),
         File(Doc(type, Literal(type, V200), <<>>)),
         File(Doc(type, Literal(type, V200), Literal(type, ver))),
         File(EditedDoc(type, ver))}

\* a working tree with its -f options: [version_files, fs, rich]
Tree(files, tree, rich) == [version_files |-> files, fs |-> tree, rich |-> rich]

\* one version file, holding anything
SingleTrees ==
    UNION {{Tree(<<p>>, [EmptyTree EXCEPT ![p] = c],
                 c = File(Doc(FileTypeOf(p), Literal(FileTypeOf(p), V101), <<>>)))
               : c \in FirstContents(p)} : p \in GivenPaths}

\* the trees of n version files that extend a well-formed first file at 1.0.1:
\* each further option names a new path, holding one of MoreContents, or
\* repeats a path given before
RECURSIVE ManyTrees(_)
ManyTrees(n) ==
    IF n <= 1
    THEN {t \in SingleTrees : t.rich}
    ELSE LET shorter == ManyTrees(n - 1)
             fresh(t) == {p \in GivenPaths : ~t.fs[p].exists}
         IN  UNION {UNION {
                 {Tree(Append(t.version_files, p), [t.fs EXCEPT ![p] = c], FALSE)
                     : c \in MoreContents(p, V101)} : p \in fresh(t)} : t \in shorter}
             \cup UNION {
                 {Tree(Append(t.version_files, p), t.fs, FALSE)
                     : p \in GivenPaths \ fresh(t)} : t \in shorter}

\* no -f option: the version file is guessed among the candidates that exist
GuessTrees ==
    LET doc(p) == File(Doc(FileTypeOf(p), Literal(FileTypeOf(p), V101), <<>>))
    IN  {Tree(<<>>, [p \in Paths |-> IF p \in some THEN doc(p) ELSE NoFile], FALSE)
            : some \in {{}, {"VERSION.txt"}, {"lib/proj.js", "proj.py"},
                        {"lib/proj.py", "VERSION"}}}

Trees == SingleTrees \cup UNION {ManyTrees(n) : n \in 2..MaxFiles} \cup GuessTrees

\* the version the run will resolve from the tree (1.0.1 when it will not get
\* that far): the changelogs and the tags of the fixtures are written for it
ResolvedFiles(files, tree) ==
    IF files # <<>> THEN files
    ELSE LET found == {k \in 1..Len(candidates) : tree[candidates[k]].exists}
         IN  IF found = {} THEN <<>>
             ELSE <<candidates[CHOOSE k \in found : \A j \in found : k <= j]>>

VersionOr(r, default) ==
    IF r.ok /\ r.info # <<>> THEN _version_from_version_info(r.info) ELSE default

FirstVersion(tree, files) ==
    IF files = <<>> THEN V101 ELSE VersionOr(_parse_version_file(tree, files[1]), V101)

ExpectedVersion(t) == FirstVersion(t.fs, ResolvedFiles(t.version_files, t.fs))

\* "## [proj ]<ver><mark>\n"
Heading(withName, ver, mark) ==
    <<"#", "#", " ">> \o (IF withName THEN <<project_name, " ">> ELSE <<>>)
    \o ver \o mark \o <<"\n">>

Marked    == <<" ", NYR>>
Notes     == <<"\n", "fix", "\n", "\n">>
Emptiness == <<"\n", NOTHING, "\n", "\n">>
OldSection == Heading(TRUE, VOLD, <<>>) \o Notes

\* the changelog a release of `ver` is expected to find
GoodChanges(ver) == File(Heading(TRUE, ver, Marked) \o Notes \o OldSection)

\* the changelogs of the fixtures, `ver` being the version the run will resolve
Changelogs(ver) ==
    { GoodChanges(ver),
      \* the top section is not marked
      File(Heading(TRUE, ver, <<>>) \o Notes \o OldSection),
      \* nothing was added to the top section, marked or not
      File(Heading(TRUE, ver, Marked) \o Emptiness \o OldSection),
      File(Heading(TRUE, ver, <<>>) \o Emptiness \o OldSection),
      \* the top section is for another version
      File(Heading(TRUE, V200, Marked) \o Notes \o Heading(TRUE, ver, <<>>) \o Notes),
      File(Heading(TRUE, V200, Marked) \o Emptiness \o Heading(TRUE, ver, <<>>) \o Notes),
      \* the heading does not name the project
      File(Heading(FALSE, ver, Marked) \o Notes \o OldSection),
      \* two blanks before the marker
      File(Heading(TRUE, ver, <<" ">> \o Marked) \o Notes \o OldSection),
      \* a title above the first section
      File(<<"#", " ", "fix", "\n", "\n">> \o Heading(TRUE, ver, Marked) \o Notes
           \o OldSection),
      \* the top section is not marked and an older one is
      File(Heading(TRUE, ver, <<>>) \o Notes \o Heading(TRUE, VOLD, Marked) \o Notes),
      \* a third-level heading of an older section repeats the heading text
      File(Heading(TRUE, ver, Marked) \o Notes \o OldSection
           \o <<"#">> \o Heading(TRUE, ver, <<>>) \o Notes),
      \* no section at all, no changelog at all
      File(<<"fix", "\n">>),
      NoFile }

(***************************************************************************)
(* The session: an invocation of the script on a working tree.             *)
(***************************************************************************)
NoAnswers == [intent |-> "", released |-> "", npm |-> "", pypi |-> ""]
NoPrev    == [stopped_at |-> "", raised |-> NoExc, exit_status |-> -1, n_effects |-> 0]

\* the first resolved version file is a .py file: only then is setup.py looked for
PythonFirst(t) ==
    \E files \in {ResolvedFiles(t.version_files, t.fs)} :
        files # <<>> /\ FileTypeOf(files[1]) = "python"

\* the working trees with their changelog, setup.py and tags.  Every changelog is
\* tried on the well-formed single version files; the other trees come with the
\* changelog a release expects.
ScenariosOf(t, ver) ==
    {[version_files |-> t.version_files,
      fs |-> [t.fs EXCEPT ![changes_path] = cl, !["setup.py"] = setup],
      git_tags |-> tags]
        : cl \in (IF t.rich THEN Changelogs(ver) ELSE {GoodChanges(ver)}),
          setup \in (IF PythonFirst(t) THEN {NoFile, File(<<>>)} ELSE {NoFile}),
          tags \in {<<VOLD>>, <<VOLD, ver>>}}

Scenarios == UNION {ScenariosOf(t, ExpectedVersion(t)) : t \in Trees}

Start(sc, dry, sure) ==
    /\ fs = sc.fs
    /\ git_tags = sc.git_tags
    /\ version_files = sc.version_files
    /\ fixture = sc
    /\ effects = <<>>
    /\ dry_run = dry
    /\ pc = "resolve"
    /\ LocalsInit
    /\ script = NoAnswers
    /\ run_no = 1
    /\ prev = NoPrev
    /\ reliable = sure
    /\ v_str = <<>>

Init == \E sc \in Scenarios, dry \in BOOLEAN : Start(sc, dry, FALSE)

(***************************************************************************)
(* How a step of cutarelease() ends.                                       *)
(***************************************************************************)
Goes(next) == pc' = next /\ UNCHANGED <<raised, stopped_at>>

Raise(stage, e) == pc' = "raised" /\ raised' = e /\ stopped_at' = stage

Return(stage) == pc' = "returned" /\ raised' = raised /\ stopped_at' = stage

Error(msg) == Exc("Error", 0, msg)

Effect(op, what) == [op |-> op, what |-> what]

\* codecs.open(path, 'w', 'utf-8'); f.write(text); f.close()
Written(files, path, text) == [files EXCEPT ![path] = File(text)]

\* What a call of query_yes_no and the print after it may do: the answer is read
\* ("yes" or "no", the default included); the write of the question hits a closed
\* pipe (IOError, errno 32) before any answer; the print after the answer does; or
\* the operator interrupts.  A question answered in an earlier run of the session
\* gets the same answer.
Outcomes(question) ==
    IF script[question] # ""
    THEN {[io |-> "ok", answer |-> script[question]]}
    ELSE {[io |-> "ok", answer |-> a] : a \in {"yes", "no"}}
         \cup (IF reliable THEN {}
               ELSE {[io |-> "EPIPE", answer |-> a] : a \in {"", "yes", "no"}}
                    \cup {[io |-> "SIGINT", answer |-> ""]})

Answered(question, o) ==
    script' = [script EXCEPT ![question] = IF o.answer = "" THEN @ ELSE o.answer]

IoError(o) ==
    IF o.io = "EPIPE" THEN Exc("IOError", 32, "Broken pipe")
    ELSE Exc("KeyboardInterrupt", 0, "")

\* the exit statuses os.system may report for a command run() starts
Statuses == IF reliable THEN {0} ELSE {0, 1}

(***************************************************************************)
(* cutarelease(), lines 80-237.                                            *)
(***************************************************************************)
\* lines 80-103: guess the version file, parse every version file, resolve the
\* current version from the first
Resolve ==
    /\ pc = "resolve"
    /\ \E files \in {ResolvedFiles(version_files, fs)} :
       \E parsed \in {[k \in 1..Len(files) |-> _parse_version_file(fs, files[k])]} :
       \E bad \in {{k \in 1..Len(files) : ~parsed[k].ok}} :
          IF files = <<>>
          THEN /\ Raise("resolve", Error("could not find a version file"))
               /\ UNCHANGED resolved
          ELSE IF bad # {}
          THEN /\ Raise("resolve",
                        Exc(parsed[Least(bad)].exc,
                            IF parsed[Least(bad)].exc = "IOError" THEN 2 ELSE 0,
                            IF parsed[Least(bad)].exc = "Error"
                            THEN "could not convert version" ELSE ""))
               /\ version_files' = files
               /\ UNCHANGED <<parsed_version_files, version_file_type, version_info,
                              version>>
          ELSE /\ version_files' = files
               /\ parsed_version_files' =
                      [k \in 1..Len(files) |->
                          [type |-> parsed[k].type, info |-> parsed[k].info]]
               /\ version_file_type' = parsed[1].type
               /\ version_info' = parsed[1].info
               /\ version' = _version_from_version_info(parsed[1].info)
               /\ Goes("confirm")
    /\ UNCHANGED <<world, invocation, changes, upcoming, curr_tags, i, exit_status,
                   script>>

\* lines 105-115: the intent question, not asked in a dry run
Confirm ==
    /\ pc = "confirm"
    /\ IF dry_run
       THEN Goes("validate") /\ script' = script
       ELSE \E o \in Outcomes("intent") :
               /\ Answered("intent", o)
               /\ IF o.io # "ok" THEN Raise("confirm", IoError(o))
                  ELSE IF o.answer # "yes" THEN Return("confirm")
                  ELSE Goes("validate")
    /\ UNCHANGED <<world, invocation, resolved, changes, upcoming, curr_tags, i,
                   exit_status>>

\* the comparison gone wrong: the lengths of the two strings are compared
VersionMismatchByLength(top_ver, ver) == Len(top_ver) # Len(ver)

\* top_ver != version
VersionMismatch(top_ver, ver) == top_ver # ver

\* lines 117-135: read and parse the changelog, check the version of its top section
Validate ==
    /\ pc = "validate"
    /\ IF ~fs[changes_path].exists
       THEN /\ Raise("validate", Error("changelog not found"))
            /\ UNCHANGED changes
       ELSE \E sections \in {changes_parser_findall(fs[changes_path].text)} :
               /\ changes_txt' = fs[changes_path].text
               /\ changes_txt_before' = fs[changes_path].text
               /\ changes_sections' = sections
               /\ IF sections = <<>>
                  THEN Raise("validate", Error("unexpected error parsing"))
                  ELSE IF VersionMismatch(sections[1].ver, version)
                  THEN Raise("validate", Error("version mismatch"))
                  ELSE Goes("nyr")
    /\ UNCHANGED <<world, invocation, resolved, upcoming, curr_tags, i, exit_status,
                   script>>

\* top_nyr = changes_sections[0][1].strip()
top_nyr == Strip(changes_sections[1].nyr)

\* top_body = changes_sections[0][2]
top_body == changes_sections[1].body

\* the test turned round: the run stops when the answer is "no"
StopsWhenNotReleased(answer) == answer = "no"

\* answer != "no", the test after the question of line 138
StopsAfterReleasedQuestion(answer) == answer # "no"

\* lines 136-145: a top section without the marker makes the run ask
\* "Has this been released already?"
CheckMarker ==
    /\ pc = "nyr"
    /\ IF top_nyr # <<>>
       THEN Goes("body") /\ script' = script
       ELSE \E o \in Outcomes("released") :
               /\ Answered("released", o)
               /\ IF o.io # "ok" THEN Raise("nyr", IoError(o))
                  ELSE IF StopsAfterReleasedQuestion(o.answer) THEN Return("nyr")
                  ELSE Goes("body")
    /\ UNCHANGED <<world, invocation, resolved, changes, upcoming, curr_tags, i,
                   exit_status>>

\* lines 146-149: nothing was added to the top section
CheckBody ==
    /\ pc = "body"
    /\ IF IsEmptyRelease(top_body)
       THEN Raise("body", Error("nothing yet"))
       ELSE Goes("prepare")
    /\ UNCHANGED <<world, invocation, resolved, changes, upcoming, curr_tags, i,
                   exit_status, script>>

\* the comparison left out: the text counts as changed whatever it is
ChangedWhatever(txt, before) == TRUE

\* changes_txt != changes_txt_before, the second half of the test of line 152
ChangedByRelease(txt, before) == txt # before

\* lines 151-157: remove the marker; write the changelog if that changed it
Prepare ==
    /\ pc = "prepare"
    /\ changes_txt' = mark_released(changes_txt)
    /\ IF ~dry_run /\ ChangedByRelease(changes_txt', changes_txt_before)
       THEN /\ fs' = Written(fs, changes_path, changes_txt')
            /\ effects' = Append(effects, Effect("write", <<changes_path>>))
            /\ Goes("commit_prepare")
       ELSE /\ UNCHANGED <<fs, effects>>
            /\ Goes("tag")
    /\ UNCHANGED <<git_tags, invocation, resolved, changes_txt_before,
                   changes_sections, upcoming, curr_tags, i, exit_status, script>>

\* run(cmd) of a command that changes nothing the run reads back
Run(stage, op, what, next) ==
    /\ pc = stage
    /\ \E status \in Statuses :
          IF status # 0
          THEN Raise(stage, Exc("OSError", status, "error running")) /\ effects' = effects
          ELSE effects' = Append(effects, Effect(op, what)) /\ next
    /\ UNCHANGED <<fs, git_tags, invocation, resolved, changes, upcoming, curr_tags, i,
                   exit_status, script>>

\* lines 158-159: git commit CHANGES.md -m "prepare for <version> release"
CommitPrepare == Run("commit_prepare", "commit", <<changes_path>>, Goes("tag"))

\* _capture_stdout(["git", "tag", "-l"]): one tag a line
GitTagList(tags) == IF tags = <<>> THEN <<>> ELSE Join(tags, <<"\n">>) \o <<"\n">>

\* the split left out: the whole listing taken as one tag
TagSetUnsplit(stdout) == {stdout}

\* set(t for t in stdout.split('\n') if t)
TagSet(stdout) ==
    LET lines == Split(stdout, "\n")
    IN  {lines[k] : k \in {j \in 1..Len(lines) : lines[j] # <<>>}}

\* lines 161-165: list the tags; tag the release unless the tag exists or dry_run
Tag ==
    /\ pc = "tag"
    /\ curr_tags' = TagSet(GitTagList(git_tags))
    /\ IF ~dry_run /\ version \notin curr_tags'
       THEN \E status \in Statuses :
               IF status # 0
               THEN /\ Raise("tag", Exc("OSError", status, "error running"))
                    /\ UNCHANGED <<git_tags, effects>>
               ELSE /\ git_tags' = Append(git_tags, version)
                    /\ effects' = Append(effects, Effect("tag", version))
                    /\ Goes("push_tags")
       ELSE /\ UNCHANGED <<git_tags, effects>>
            /\ Goes("publish")
    /\ UNCHANGED <<fs, invocation, resolved, changes, upcoming, i, exit_status, script>>

\* line 166: git push --tags
PushTags == Run("push_tags", "push_tags", <<>>, Goes("publish"))

\* lines 168-179: which publish question is asked, if any
PublishQuestion ==
    IF version_file_type = "package.json" THEN "npm"
    ELSE IF version_file_type = "python" /\ fs["setup.py"].exists THEN "pypi"
    ELSE ""

\* lines 168-179: offer to publish
Publish ==
    /\ pc = "publish"
    /\ IF PublishQuestion = ""
       THEN Goes("next_changes") /\ script' = script
       ELSE \E o \in Outcomes(PublishQuestion) :
               /\ Answered(PublishQuestion, o)
               /\ IF o.io # "ok" THEN Raise("publish", IoError(o))
                  ELSE IF o.answer = "yes"
                  THEN Goes(IF PublishQuestion = "npm" THEN "npm_publish"
                            ELSE "pypi_publish")
                  ELSE Goes("next_changes")
    /\ UNCHANGED <<world, invocation, resolved, changes, upcoming, curr_tags, i,
                   exit_status>>

\* line 173: npm publish
NpmPublish == Run("npm_publish", "npm_publish", <<>>, Goes("next_changes"))

\* lines 178-179: python setup.py sdist --formats zip upload
PypiPublish == Run("pypi_publish", "pypi_publish", <<>>, Goes("next_changes"))

\* lines 183-196: compute the next version, open its section in the changelog,
\* write the changelog unless dry_run
NextChanges ==
    /\ pc = "next_changes"
    /\ LET n    == _get_next_version_info(version_info)
           next == _version_from_version_info(n.info)
       IN  IF ~n.ok
           THEN /\ Raise("next_changes", Exc("TypeError", 0, ""))
                /\ UNCHANGED <<upcoming, changes_txt, fs, effects>>
           ELSE /\ next_version_info' = n.info
                /\ next_version' = next
                /\ IF ~Contains(changes_txt, SectionMarker(version))
                   THEN /\ Raise("next_changes", Error("changelog marker not found"))
                        /\ UNCHANGED <<changes_txt, fs, effects>>
                   ELSE /\ changes_txt' = open_next_section(changes_txt, version, next)
                        /\ IF dry_run
                           THEN UNCHANGED <<fs, effects>>
                           ELSE /\ fs' = Written(fs, changes_path, changes_txt')
                                /\ effects' = Append(effects,
                                                     Effect("write", <<changes_path>>))
                        /\ Goes("ver_file")
    /\ i' = 0
    /\ UNCHANGED <<git_tags, invocation, resolved, changes_txt_before,
                   changes_sections, curr_tags, exit_status, script>>

\* lines 200-232, one turn of the loop: rewrite version_files[i]; after the last
\* one the run goes on to the final commit, or is over if dry_run
VersionFile ==
    /\ pc = "ver_file"
    /\ LET ver_file == version_files[i + 1]
           r == RewriteVersionFile(parsed_version_files[i + 1].type,
                                   fs[ver_file].text, version, version_info,
                                   next_version, _tuple_from_version(next_version))
       IN  IF ~r.ok
           THEN /\ Raise("ver_file", Error("version marker not found"))
                /\ UNCHANGED <<fs, effects, i>>
           ELSE /\ IF dry_run
                   THEN UNCHANGED <<fs, effects>>
                   ELSE /\ fs' = Written(fs, ver_file, r.text)
                        /\ effects' = Append(effects, Effect("write", <<ver_file>>))
                /\ i' = i + 1
                /\ IF i + 1 < Len(version_files) THEN Goes("ver_file")
                   ELSE IF dry_run THEN Return("end")
                   ELSE Goes("commit_next")
    /\ UNCHANGED <<git_tags, invocation, resolved, changes, upcoming, curr_tags,
                   exit_status, script>>

\* the version files left out of the last commit
CommitNextOfChangesAlone ==
    Run("commit_next", "commit", <<changes_path>>, Goes("push"))

\* lines 235-236: git commit CHANGES.md <version files> -m "prep for future dev"
CommitNext ==
    Run("commit_next", "commit", <<changes_path>> \o version_files, Goes("push"))

\* line 237: git push, and the function is over
Push == Run("push", "push", <<>>, Return("end"))

(***************************************************************************)
(* The mainline, lines 426-456.                                            *)
(***************************************************************************)
\* the skip gone wrong: every IOError is skipped, whatever its errno
ExitStatusSkippingIOError(e) ==
    IF e.exc = "KeyboardInterrupt" THEN 1
    ELSE IF e.exc = "IOError" THEN 0
    ELSE 1

\* the exit status after an exception: 1 for KeyboardInterrupt; an IOError whose
\* args[0] is 32 is skipped and the script ends normally; 1 for anything else
ExitStatusOf(e) ==
    IF e.exc = "KeyboardInterrupt" THEN 1
    ELSE IF e.exc = "IOError" /\ e.errno = 32 THEN 0
    ELSE 1

\* sys.exit(retval) with the None main() returns, or the except clauses
Exit ==
    /\ pc \in {"returned", "raised"}
    /\ exit_status' = IF pc = "returned" THEN 0 ELSE ExitStatusOf(raised)
    /\ pc' = "exited"
    /\ UNCHANGED <<world, invocation, resolved, changes, upcoming, curr_tags, i,
                   raised, stopped_at, script>>

Next ==
    \/ Resolve \/ Confirm \/ Validate \/ CheckMarker \/ CheckBody \/ Prepare
    \/ CommitPrepare \/ Tag \/ PushTags \/ Publish \/ NpmPublish \/ PypiPublish
    \/ NextChanges \/ VersionFile \/ CommitNext \/ Push \/ Exit

Spec == Init /\ [][Next]_vars

(***************************************************************************)
(* A real run and then a dry run of the same fixture, the external commands *)
(* all succeeding and the operator answering a question the same way in     *)
(* both.                                                                    *)
(***************************************************************************)
Outcome == [stopped_at |-> stopped_at, raised |-> raised, exit_status |-> exit_status,
            n_effects |-> Len(effects)]

InitTwin == \E sc \in Scenarios : Start(sc, FALSE, TRUE)

\* the fixture is restored and the script is started again with --dry-run
StartDryRun ==
    /\ pc = "exited" /\ run_no = 1
    /\ fs' = fixture.fs
    /\ git_tags' = fixture.git_tags
    /\ version_files' = fixture.version_files
    /\ effects' = <<>>
    /\ dry_run' = TRUE
    /\ run_no' = 2
    /\ prev' = Outcome
    /\ pc' = "resolve"
    /\ parsed_version_files' = <<>> /\ version_file_type' = "" /\ version_info' = <<>>
    /\ version' = <<>> /\ changes_txt' = <<>> /\ changes_txt_before' = <<>>
    /\ changes_sections' = <<>> /\ curr_tags' = {} /\ next_version_info' = <<>>
    /\ next_version' = <<>> /\ i' = 0 /\ raised' = NoExc /\ stopped_at' = ""
    /\ exit_status' = -1
    /\ UNCHANGED <<fixture, reliable, v_str, script>>

NextTwin == Next \/ StartDryRun

SpecTwin == InitTwin /\ [][NextTwin]_vars

(***************************************************************************)
(* A real run that stops in the loop over the version files, the operator   *)
(* repairing the marker of the file it stopped at, and a second run on the  *)
(* working tree as it then is.                                              *)
(***************************************************************************)
InitRerun == \E sc \in Scenarios : Start(sc, FALSE, TRUE)

\* the run stopped because the marker of version_files[i] was not found
StoppedAtMarker ==
    /\ pc = "exited" /\ run_no = 1
    /\ stopped_at = "ver_file" /\ raised = Error("version marker not found")

\* the operator edits that file, and only it, so that it declares `ver` with the
\* marker of its format: the version the run was releasing or the next one
FixMarker ==
    /\ StoppedAtMarker
    /\ \E ver \in {version, next_version} :
          fs' = Written(fs, version_files[i + 1],
                        Doc(parsed_version_files[i + 1].type,
                            Literal(parsed_version_files[i + 1].type, ver), <<>>))
    /\ pc' = "fixed"
    /\ UNCHANGED <<git_tags, effects, invocation, resolved, changes, upcoming,
                   curr_tags, i, raised, stopped_at, exit_status, script>>

\* the script is started again with the same options on the tree as it is
Rerun ==
    /\ pc = "fixed"
    /\ run_no' = 2
    /\ prev' = Outcome
    /\ version_files' = fixture.version_files
    /\ script' = NoAnswers
    /\ pc' = "resolve"
    /\ parsed_version_files' = <<>> /\ version_file_type' = "" /\ version_info' = <<>>
    /\ version' = <<>> /\ changes_txt' = <<>> /\ changes_txt_before' = <<>>
    /\ changes_sections' = <<>> /\ curr_tags' = {} /\ next_version_info' = <<>>
    /\ next_version' = <<>> /\ i' = 0 /\ raised' = NoExc /\ stopped_at' = ""
    /\ exit_status' = -1
    /\ UNCHANGED <<world, dry_run, fixture, reliable, v_str>>

NextRerun == Next \/ FixMarker \/ Rerun

SpecRerun == InitRerun /\ [][NextRerun]_vars

(***************************************************************************)
(* The properties.                                                         *)
(***************************************************************************)
Range(seq) == {seq[k] : k \in 1..Len(seq)}

Over == pc = "exited"

\* validation has parsed the changelog and found a top section
TopKnown == changes_sections # <<>>

\* C1: in a run with dry_run set nothing is written, committed, tagged, pushed
\* or published, whatever the fixture and whatever the operator answers.
C1_DryRunHasNoEffect == dry_run => effects = <<>>

\* C2: a dry run and a real run of the same fixture, with every command succeeding
\* and the operator confirming the release and answering alike, end the same way:
\* both complete, both return early at the same question, or both raise the same
\* error at the same stage.
C2_DryRunEndsLikeRealRun ==
    (Over /\ run_no = 2 /\ script.intent = "yes")
        => (stopped_at = prev.stopped_at /\ raised = prev.raised)

\* C3 as stated: whenever the version of the top section of the changelog differs
\* from the version resolved from the first version file, the run ends with the
\* version mismatch error and has written, committed, tagged, pushed and published
\* nothing, whatever the operator answers.
C3_MismatchAlwaysEndsInError ==
    (Over /\ version # <<>> /\ fixture.fs[changes_path].exists
          /\ changes_parser_findall(fixture.fs[changes_path].text) # <<>>
          /\ changes_parser_findall(fixture.fs[changes_path].text)[1].ver # version)
        => (raised = Error("version mismatch") /\ effects = <<>>)

\* C3 amended: whenever the run gets to the validation of the changelog and the
\* version of its top section differs from the resolved version, the run stops
\* there with the version mismatch error, exits with status 1, and has written,
\* committed, tagged, pushed and published nothing.
C3_MismatchStopsValidation ==
    (TopKnown /\ changes_sections[1].ver # version)
        => /\ pc \in {"raised", "exited"}
           /\ raised = Error("version mismatch")
           /\ stopped_at = "validate"
           /\ effects = <<>>
           /\ Over => exit_status = 1

C3_MismatchSeen ==
    /\ Over /\ TopKnown /\ changes_sections[1].ver # version
    /\ raised = Error("version mismatch") /\ ~dry_run /\ script.intent = "yes"

\* C4 as stated: whenever the top section is for the current version and its body
\* is the placeholder "(nothing yet)", the run ends with the empty release error
\* and has written, committed, tagged, pushed and published nothing, with or
\* without the marker "(not yet released)" and whatever the operator answers.
C4_PlaceholderAlwaysEndsInError ==
    (Over /\ TopKnown /\ changes_sections[1].ver = version
          /\ Strip(changes_sections[1].body) = <<NOTHING>>)
        => (raised = Error("nothing yet") /\ effects = <<>>)

\* the run has got past the question about the marker
PastMarkerQuestion ==
    /\ pc \notin {"resolve", "confirm", "validate", "nyr"}
    /\ stopped_at \notin {"resolve", "confirm", "validate", "nyr"}

\* C4 amended: whenever the run gets to the check of the body of the top section
\* (the section carries the marker, or the operator answered "no" to "Has this
\* been released already?") and the body is the placeholder "(nothing yet)", the
\* run stops there with the empty release error, exits with status 1, and has
\* written, committed, tagged, pushed and published nothing.
C4_PlaceholderStopsRelease ==
    (TopKnown /\ PastMarkerQuestion /\ pc # "body"
              /\ Strip(changes_sections[1].body) = <<NOTHING>>)
        => /\ pc \in {"raised", "exited"}
           /\ raised = Error("nothing yet")
           /\ stopped_at = "body"
           /\ effects = <<>>
           /\ Over => exit_status = 1

C4_PlaceholderSeen ==
    /\ Over /\ TopKnown /\ Strip(changes_sections[1].body) = <<NOTHING>>
    /\ changes_sections[1].nyr = <<>> /\ script.released = "no"
    /\ raised = Error("nothing yet")

\* C5: after a run without dry_run that went through to its end for version v
\* with next version n: a tag v exists; the first section of the changelog is the
\* one of n, marked "(not yet released)", with the body "(nothing yet)"; the
\* section of v comes next and is not marked; every version file, parsed again,
\* gives n.
C5_ReleasedState ==
    (Over /\ ~dry_run /\ stopped_at = "end")
        => /\ version \in Range(git_tags)
           /\ \E sections \in {changes_parser_findall(fs[changes_path].text)} :
                 /\ Len(sections) >= 2
                 /\ sections[1].ver = next_version
                 /\ Strip(sections[1].nyr) = <<NYR>>
                 /\ Strip(sections[1].body) = <<NOTHING>>
                 /\ sections[2].ver = version
                 /\ sections[2].nyr = <<>>
           /\ \A k \in 1..Len(version_files) :
                 \E r \in {_parse_version_file(fs, version_files[k])} :
                    r.ok /\ _version_from_version_info(r.info) = next_version

\* C6: for every string v of the grammar major.minor[.patch[(a|b|c)[N]]],
\* _version_from_version_info(_version_info_from_version(v)) is v.
C6_RoundTrip ==
    (v_str \in GrammarVersions /\ pc \in {"v_next", "v_done"})
        => (raised = NoExc /\ version = v_str)

\* C7: for every version tuple v that parsing produces, _get_next_version_info(v)
\* returns a tuple of the same length that differs from v in its last component
\* only, which is an integer one more than that of v.
C7_NextIsGreater ==
    (v_str \in GrammarVersions /\ pc = "v_done" /\ version_info # <<>>)
        => /\ raised = NoExc
           /\ Len(next_version_info) = Len(version_info)
           /\ \A k \in 1..(Len(version_info) - 1) : next_version_info[k] = version_info[k]
           /\ version_info[Len(version_info)].t = "int"
           /\ next_version_info[Len(version_info)]
                  = IntC(version_info[Len(version_info)].n + 1)

\* C8: the rewrite of a version file of the package.json, JavaScript or Python
\* format replaces the first occurrence of the marker of the current version and
\* leaves every other occurrence as it is.
C8_OneSubstitution ==
    [][(pc = "ver_file" /\ pc' # "raised" /\ ~dry_run
            /\ parsed_version_files[i + 1].type # "version")
        => fs'[version_files[i + 1]].text
               = Replace(fs[version_files[i + 1]].text,
                         VersionMarker(parsed_version_files[i + 1].type, version,
                                       version_info),
                         VersionMarker(parsed_version_files[i + 1].type, next_version,
                                       _tuple_from_version(next_version)),
                         1)]_vars

\* C9: when a run without dry_run stopped because the marker of a version file was
\* missing and the operator repaired that file's marker, a second run, the operator
\* answering so that it goes on, finds the tag, does not tag again, and goes
\* through to its end with the changelog and every version file at the next
\* version.
C9_RerunCompletes ==
    (Over /\ run_no = 2 /\ script.intent = "yes" /\ script.released # "yes")
        => /\ stopped_at = "end" /\ raised = NoExc
           /\ Len({k \in (prev.n_effects + 1)..Len(effects) : effects[k].op = "tag"}) = 0

\* C10 as stated: a run without dry_run in which the operator declines the release
\* exits with status 0 having written, committed, tagged, pushed and published
\* nothing; and every run that ends through an exception exits with a status
\* other than 0.
C10_EveryErrorExitsNonZero ==
    Over => /\ (~dry_run /\ script.intent = "no" /\ raised = NoExc)
                => (exit_status = 0 /\ effects = <<>>)
            /\ raised # NoExc => exit_status # 0

\* C10 amended: a run without dry_run in which the operator declines the release
\* exits with status 0 having written, committed, tagged, pushed and published
\* nothing; and every run that ends through an exception other than an IOError
\* with errno 32 (broken pipe) exits with status 1.
C10_ErrorsButBrokenPipeExitNonZero ==
    Over => /\ (~dry_run /\ script.intent = "no" /\ raised = NoExc)
                => (exit_status = 0 /\ effects = <<>> /\ stopped_at = "confirm")
            /\ (raised # NoExc /\ ~(raised.exc = "IOError" /\ raised.errno = 32))
                => exit_status = 1

C10_DeclinedSeen ==
    /\ Over /\ ~dry_run /\ script.intent = "no" /\ raised = NoExc
    /\ stopped_at = "confirm" /\ exit_status = 0

\* the top section was parsed without the marker and the question
\* "Has this been released already?" is about to be asked
AtMarkerQuestion == pc = "nyr" /\ top_nyr = <<>>

\* C11 as stated: when the top section is for the current version and lacks the
\* marker, the operator is asked; on "yes" (the default) the run goes on towards
\* the preparation of the release, on "no" it returns without any side effect.
C11_YesProceedsNoAborts ==
    [][(AtMarkerQuestion /\ pc' # "raised")
        => /\ script'.released \in {"yes", "no"}
           /\ script'.released = "yes" => pc' = "body"
           /\ script'.released = "no" => (pc' = "returned" /\ effects' = <<>>)]_vars

\* C11 amended: when the top section is for the current version and lacks the
\* marker, the operator is asked "Has this been released already?"; on "no" the
\* run goes on to the check of the body and from there to the preparation of the
\* release, on "yes" (the default) it returns without any side effect and exits
\* with status 0.
C11_NoProceedsYesAborts ==
    [][/\ (AtMarkerQuestion /\ pc' # "raised")
            => /\ script'.released \in {"yes", "no"}
               /\ script'.released = "no" => (pc' = "body" /\ effects' = effects)
               /\ script'.released = "yes"
                    => (pc' = "returned" /\ stopped_at' = "nyr" /\ effects' = <<>>)
       /\ (pc = "returned" /\ stopped_at = "nyr")
            => (exit_status' = 0 /\ effects' = <<>>)
       /\ (pc = "body" /\ top_nyr = <<>> /\ pc' # "raised") => pc' = "prepare"]_vars

C11_UnmarkedAnsweredNo ==
    /\ pc = "prepare" /\ TopKnown /\ top_nyr = <<>> /\ script.released = "no"
    /\ changes_sections[1].ver = version

\* the sections after the removal are those before it with the top section's
\* flag cleared: the same count, the same versions and bodies, the same flags
\* from the second section on
OnlyTopFlagCleared(before, after) ==
    /\ Len(after) = Len(before)
    /\ \A k \in 1..Len(before) :
          /\ after[k].ver = before[k].ver
          /\ after[k].body = before[k].body
          /\ after[k].nyr = IF k = 1 THEN <<>> ELSE before[k].nyr

\* C12: the preparation of the release clears the flag of the top section and
\* nothing else: the text it leaves parses to the same sections, the top
\* section's flag cleared, every other flag and every body as before; when the
\* top section's flag is clear already no other section loses its marker.
C12_OnlyTopFlagCleared ==
    [][pc = "prepare"
        => OnlyTopFlagCleared(changes_sections,
                              changes_parser_findall(changes_txt'))]_vars

\* C13: a changelog without the text " (not yet released)" leaves the
\* preparation of the release as it came, with no write and no commit; and in a
\* real run the changelog is written, and its commit issued, in that stage
\* exactly when the removal of the marker changed the text.
C13_WrittenIffChanged ==
    [][/\ (pc = "prepare" /\ ~Contains(changes_txt, <<" ", NYR>>))
            => (changes_txt' = changes_txt /\ fs' = fs /\ effects' = effects
                /\ pc' = "tag")
       /\ (pc = "prepare" /\ ~dry_run)
            => IF changes_txt' # changes_txt
               THEN /\ fs' = [fs EXCEPT ![changes_path] = File(changes_txt')]
                    /\ effects' = Append(effects, Effect("write", <<changes_path>>))
                    /\ pc' = "commit_prepare"
               ELSE fs' = fs /\ effects' = effects /\ pc' = "tag"
       /\ (pc' = "commit_prepare" /\ pc # "commit_prepare")
            => (pc = "prepare" /\ ~dry_run /\ changes_txt' # changes_txt)
       /\ pc = "commit_prepare"
            => \/ pc' = "raised" /\ raised'.exc = "OSError" /\ effects' = effects
               \/ /\ pc' = "tag"
                  /\ effects' = Append(effects, Effect("commit", <<changes_path>>))
       /\ \A k \in 1..Len(effects') :
             (effects'[k].op = "commit" /\ effects'[k].what = <<changes_path>>)
                => (k >= 2 /\ effects'[k - 1] = Effect("write", <<changes_path>>))]_vars

C13_UnmarkedLeftAlone ==
    /\ pc = "tag" /\ ~dry_run /\ curr_tags = {}
    /\ ~Contains(changes_txt_before, <<" ", NYR>>)
    /\ changes_txt = changes_txt_before
    /\ fs = fixture.fs /\ effects = <<>>

\* the places where the second-level heading of the release starts a line
HeadingsOf(text, ver) ==
    {p \in 1..Len(text) : LineStart(text, p) /\ MatchesAt(text, SectionMarker(ver), p)}

\* the heading and the placeholder body of the section of the next version
NextSectionAlone(next) ==
    <<"#", "#", " ", project_name, " ">> \o next
    \o <<" ", NYR, "\n", "\n", NOTHING, "\n", "\n">>

\* text with `new` put in just before position p
InsertedBefore(text, p, new) ==
    Slice(text, 1, p - 1) \o new \o Slice(text, p, Len(text))

\* C14: the section of the next version is put in once, just before the
\* second-level heading of the release; no other place of the changelog (a
\* deeper heading or a body line holding the same text) is touched.
C14_OneSectionInserted ==
    [][(pc = "next_changes" /\ pc' = "ver_file")
        => \E hits \in {HeadingsOf(changes_txt, version)} :
              /\ hits # {}
              /\ changes_txt' = InsertedBefore(changes_txt, Least(hits),
                                               NextSectionAlone(next_version'))]_vars

\* the stage of the publish offers is behind the run, no prompt of it having
\* failed
OffersMade == pc \in {"npm_publish", "pypi_publish", "next_changes"}

\* C15: the offer to publish to npm is made exactly when one of the resolved
\* version files is a package.json; the offer to publish to pypi is made whenever
\* setup.py is there, whether or not the npm offer was made; and a publish
\* command is run only after "yes" to its own offer.
C15_OffersFollowTheFiles ==
    OffersMade
        => /\ (script.npm # "")
                <=> (\E k \in 1..Len(parsed_version_files) :
                        parsed_version_files[k].type = "package.json")
           /\ fs["setup.py"].exists => script.pypi # ""
           /\ pc = "npm_publish" => script.npm = "yes"
           /\ pc = "pypi_publish" => script.pypi = "yes"

\* the place of a stage in the order of the stages of a run
StageRank(stage) ==
    CASE stage = "resolve" -> 0
      [] stage = "confirm" -> 1
      [] stage = "validate" -> 2
      [] stage = "nyr" -> 3
      [] stage = "body" -> 4
      [] stage = "prepare" -> 5
      [] stage = "commit_prepare" -> 6
      [] stage = "tag" -> 7
      [] stage = "push_tags" -> 8
      [] stage = "publish" -> 9
      [] stage \in {"npm_publish", "pypi_publish"} -> 10
      [] stage = "next_changes" -> 11
      [] stage = "ver_file" -> 12
      [] stage = "commit_next" -> 13
      [] stage = "push" -> 14
      [] stage \in {"returned", "raised"} -> 15
      [] OTHER -> 16

\* the one side effect that belongs to a stage
EffectOfStage(stage) ==
    CASE stage = "prepare" -> Effect("write", <<changes_path>>)
      [] stage = "commit_prepare" -> Effect("commit", <<changes_path>>)
      [] stage = "tag" -> Effect("tag", version)
      [] stage = "push_tags" -> Effect("push_tags", <<>>)
      [] stage = "npm_publish" -> Effect("npm_publish", <<>>)
      [] stage = "pypi_publish" -> Effect("pypi_publish", <<>>)
      [] stage = "next_changes" -> Effect("write", <<changes_path>>)
      [] stage = "ver_file" -> Effect("write", <<version_files[i + 1]>>)
      [] stage = "commit_next" -> Effect("commit", <<changes_path>> \o version_files)
      [] stage = "push" -> Effect("push", <<>>)
      [] OTHER -> Effect("none", <<>>)

\* the operator confirmed the release and the changelog passed its checks
ReleaseAccepted ==
    /\ script.intent = "yes"
    /\ TopKnown
    /\ changes_sections[1].ver = version
    /\ top_nyr # <<>> \/ script.released = "no"
    /\ Strip(top_body) # <<NOTHING>>

\* C16: in a real run the side effects come in the order of the stages only, each
\* stage passed once and the version files taken in the order of the list: the
\* write of the prepared changelog, its commit, the tag, the push of the tags,
\* the publish command, the write of the changelog with the next section, the
\* writes of the version files, the commit of the changelog with all the version
\* files, the push; and none comes before the operator confirmed the release and
\* the changelog passed its checks.
C16_EffectsInStageOrder ==
    [][~dry_run
        => /\ \/ StageRank(pc') > StageRank(pc)
              \/ pc = "ver_file" /\ pc' = "ver_file" /\ i' = i + 1
           /\ effects' # effects => effects' = Append(effects, EffectOfStage(pc))
           /\ effects' # <<>> => ReleaseAccepted']_vars

C16_WholeReleaseDone ==
    /\ Over /\ ~dry_run /\ stopped_at = "end"
    /\ Len(effects) = 10

\* the run got to the tag stage and is through with it: it is at a later stage,
\* or it ended at the tag stage or later
TagStageBehind ==
    IF pc \in {"returned", "raised", "exited"}
    THEN StageRank(stopped_at) >= 7
    ELSE StageRank(pc) >= 9

\* `git tag -a` was run: it succeeded, or its failure ended the run
TagIssued == (\E k \in 1..Len(effects) : effects[k].op = "tag") \/ stopped_at = "tag"

\* `git push --tags` was run: it succeeded, or its failure ended the run
PushTagsIssued ==
    (\E k \in 1..Len(effects) : effects[k].op = "push_tags") \/ stopped_at = "push_tags"

\* the repository had the tag of the release when the run started
TaggedBefore == version \in Range(fixture.git_tags)

\* C17 as stated: in a run that gets to the tag stage, the tag command and the
\* push of the tags are issued exactly when the run is a real one and the version
\* is not among the listed tags; when the tag exists neither is issued and the
\* run goes on.
C17_TagAndPushIffUntagged ==
    TagStageBehind
        => /\ (TagIssued /\ PushTagsIssued) <=> (~dry_run /\ ~TaggedBefore)
           /\ TaggedBefore
                => (~TagIssued /\ ~PushTagsIssued
                    /\ stopped_at \notin {"tag", "push_tags"})

\* C17 amended: in a run that gets to the tag stage, the tag command is issued
\* exactly when the run is a real one and the version is not among the listed
\* tags, and the push of the tags is issued exactly when the tag command was
\* issued and succeeded; when the tag exists neither is issued and the run goes
\* on.
C17_TagIffUntaggedPushIffTagged ==
    TagStageBehind
        => /\ TagIssued <=> (~dry_run /\ ~TaggedBefore)
           /\ PushTagsIssued <=> (\E k \in 1..Len(effects) : effects[k].op = "tag")
           /\ \A k \in 1..Len(effects) :
                 effects[k].op = "tag" => effects[k].what = version
           /\ TaggedBefore
                => (~TagIssued /\ ~PushTagsIssued
                    /\ stopped_at \notin {"tag", "push_tags"})

C17_TaggedAlreadyAndOn ==
    /\ pc = "publish" /\ ~dry_run /\ TaggedBefore
    /\ git_tags = fixture.git_tags

\* a real run ended at a version file whose marker was not found
StoppedAtVersionFile == Over /\ ~dry_run /\ stopped_at = "ver_file"

\* the file on disk is at the next version: it holds the marker of the next
\* version, or, a plain version file, the next version alone
AtNextVersion(path, type) ==
    IF type = "version"
    THEN fs[path].text = next_version
    ELSE Contains(fs[path].text,
                  VersionMarker(type, next_version, _tuple_from_version(next_version)))

\* C18: when the marker of the k-th version file (here k = i + 1) is missing in
\* a real run, the run ends with an error; the changelog and the version files
\* before the k-th are on disk at the next version; the k-th version file and
\* those after it are as they were; the last commit and the push were not
\* issued; and the tag of the release is there.
C18_PartialRewrite ==
    StoppedAtVersionFile
        => /\ raised = Error("version marker not found")
           /\ exit_status = 1
           /\ fs[changes_path].text = changes_txt
           /\ Contains(changes_txt, NextSectionText(next_version, version))
           /\ \A j \in 1..i :
                 AtNextVersion(version_files[j], parsed_version_files[j].type)
           /\ \A j \in (i + 1)..Len(version_files) :
                 fs[version_files[j]] = fixture.fs[version_files[j]]
           /\ \A k \in 1..Len(effects) :
                 /\ effects[k].op # "push"
                 /\ effects[k].op = "commit" => effects[k].what = <<changes_path>>
           /\ version \in Range(git_tags)

\* the changelog passed its checks with no override: its top section is for the
\* current version, carries the marker and has a body other than the placeholder
AcceptedWithoutOverride ==
    /\ TopKnown
    /\ changes_sections[1].ver = version
    /\ top_nyr # <<>>
    /\ Strip(top_body) # <<NOTHING>>

\* C19: a changelog that passed the checks with no override has the heading the
\* opening of the next section looks for, so that stage does not abort; and no
\* run creates and pushes the tag and then fails for want of that heading.
C19_AcceptedChangelogHasMarker ==
    raised = Error("changelog marker not found")
        => /\ ~AcceptedWithoutOverride
           /\ ~(\E k \in 1..Len(effects) : effects[k].op = "push_tags")

\* the k-th version file was parsed to a version other than the current one (the
\* version of the first file)
HoldsAnotherVersion(k) ==
    _version_from_version_info(parsed_version_files[k].info) # version

\* C20: a run ends well only if every version file held the version of the first
\* when it started; a version file holding another version makes the run abort
\* and is not overwritten.
C20_FilesAgreeOrAbort ==
    \A k \in 1..Len(parsed_version_files) :
        HoldsAnotherVersion(k)
            => /\ fs[version_files[k]] = fixture.fs[version_files[k]]
               /\ ~(Over /\ stopped_at = "end")

====
